---- MODULE Spec2Model ----
(***************************************************************************)
(* Model of the dev-docs content backend (src/unnamed/part_000):           *)
(* cleanRoute, getContent, parseMDLocal, parseMD, updateContent,           *)
(* getContentByRoute, loadContentByRoute and getContentMeta, running       *)
(* against the shift-db key-value store (get / create / remove / update).  *)
(*                                                                         *)
(* Every exposed function is an async function: it runs atomically between *)
(* two awaits of the store, and calls of different clients interleave at   *)
(* those awaits.  update(key, mutator) reads the value with its version,   *)
(* runs the mutator, and writes the result only if the version is still    *)
(* the one it read; otherwise it runs the mutator again on the new value.  *)
(***************************************************************************)
EXTENDS Integers, Sequences, FiniteSets, TLC

\* Total number of calls issued in one behaviour.
MaxCalls == 2

\* Longest route string handed to cleanRoute on its own.
MaxLen == 3

Clients == {"c1", "c2"}

\* ------------------------------------------------------------------ values

\* const contentKey = 'content'
contentKey == "content"

\* The empty object {} (also: a store with no entry, frontmatter with no keys).
EmptyObj == [x \in {} |-> x]

\* null, the default of clientPrevContent
Null == [null |-> TRUE]

\* undefined, the initial value of potentialError and the value a successful
\* updateContent resolves to
Undefined == [type |-> "undefined"]

\* Characters of route strings; \s matches the whitespace ones.
Whitespace == {" ", "\t"}

\* String.prototype.toLowerCase on one character
LowerChar(ch) == CASE ch = "A" -> "a"
                   [] ch = "B" -> "b"
                   [] ch = "C" -> "c"
                   [] OTHER -> ch

\* someRoute.replace(/\s+/g, '-'): every maximal run of whitespace becomes
\* one hyphen
RECURSIVE ReplaceWs(_)
ReplaceWs(s) ==
    IF s = <<>> THEN <<>>
    ELSE IF Head(s) \in Whitespace
         THEN IF Len(s) > 1 /\ s[2] \in Whitespace
              THEN ReplaceWs(Tail(s))
              ELSE <<"-">> \o ReplaceWs(Tail(s))
         ELSE <<Head(s)>> \o ReplaceWs(Tail(s))

\* .toLowerCase()
ToLowerCase(s) == [i \in 1..Len(s) |-> LowerChar(s[i])]

\* A mutant of cleanRoute: the pattern lacks the g flag, so only the first
\* run of whitespace is replaced.
RECURSIVE ReplaceFirstWs(_)
ReplaceFirstWs(s) ==
    IF s = <<>> THEN <<>>
    ELSE IF Head(s) \in Whitespace
         THEN IF Len(s) > 1 /\ s[2] \in Whitespace
              THEN ReplaceFirstWs(Tail(s))
              ELSE <<"-">> \o Tail(s)
         ELSE <<Head(s)>> \o ReplaceFirstWs(Tail(s))

cleanRouteFirstRunOnly(someRoute) == ToLowerCase(ReplaceFirstWs(someRoute))

\* function cleanRoute(someRoute)
cleanRoute(someRoute) == ToLowerCase(ReplaceWs(someRoute))

\* Route strings clients declare in frontmatter or look up: two spellings
\* of one route and another route.
Routes == { <<"A", " ", "b">>, <<"a", "-", "b">>, <<"c">> }

\* Raw markdown texts.  yaml says whether the frontmatter block is valid
\* YAML, attrs is what that block declares, body is the text after it.
Content(route, body) == [yaml |-> "ok", attrs |-> [route |-> route], body |-> body]

RoutedContents ==
    { Content(<<"A", " ", "b">>, "x"), Content(<<"a", "-", "b">>, "y"),
      Content(<<"a", "-", "b">>, "x"), Content(<<"c">>, "x") }

NoRouteContent == [yaml |-> "ok", attrs |-> EmptyObj, body |-> "x"]

MalformedContent == [yaml |-> "bad", attrs |-> EmptyObj, body |-> "x"]

Contents == RoutedContents \cup {NoRouteContent, MalformedContent}

\* Values of the clientPrevContent argument: null, or a raw text the client
\* has read earlier.
PrevContents ==
    { Null, Content(<<"A", " ", "b">>, "x"), Content(<<"a", "-", "b">>, "y") }

Jwts == {"valid", "invalid"}

\* The argument lists of the calls.  A call with a rejected token reads none
\* of its other arguments, so one choice of them stands for all.
UpdateContentArgs ==
    { <<jwt, content, prev>> \in Jwts \X Contents \X PrevContents :
        jwt = "invalid" => (content = NoRouteContent /\ prev = Null) }

ParseMDArgs ==
    { <<jwt, content>> \in Jwts \X Contents :
        jwt = "invalid" => content = NoRouteContent }

GetContentByRouteArgs ==
    { <<jwt, route>> \in Jwts \X Routes : jwt = "invalid" => route = <<"c">> }

\* A mutant of validateJWT: every token is accepted.
validateJWTAcceptsAll(jwt) == TRUE

\* validateJWT(jwt) resolves for a valid token and rejects otherwise
validateJWT(jwt) == jwt = "valid"

\* fm(markdownContent) throws on a frontmatter block that is not valid YAML
FmThrows(markdownContent) == markdownContent.yaml = "bad"

\* processor.process(body): remark-parse, remark-rehype, slug, link, stringify
Process(body) == <<"html", body>>

\* async function parseMDLocal(markdownContent)
parseMDLocal(markdownContent) ==
    [attributes |-> markdownContent.attrs,
     body       |-> markdownContent.body,
     parsed     |-> Process(markdownContent.body),
     raw        |-> markdownContent]

\* parsed.attributes.route === undefined
RouteUndefined(parsed) == "route" \notin DOMAIN parsed.attributes

\* obj with obj[key] = value set (copied[clean] = parsed)
Put(obj, key, value) ==
    [k \in DOMAIN obj \cup {key} |-> IF k = key THEN value ELSE obj[k]]

\* ------------------------------------------------------------------ results

Ok == Undefined

ErrorResult(code) == [type |-> "error", code |-> code]

Thrown(what) == [type |-> "thrown", what |-> what]

Value(v) == [type |-> "value", value |-> v]

\* ------------------------------------------------------------------ store

\* get(key): the stored value, undefined when there is no entry
Exists(store) == contentKey \in DOMAIN store

\* { ...prevContent }: the own properties of prevContent, none for undefined
Spread(store) == IF Exists(store) THEN store[contentKey] ELSE EmptyObj

\* The store with value stored at contentKey.
Stored(value) == [k \in {contentKey} |-> value]

\* A mutant of Create: nothing is created.
CreateNothing(store, value) == store

\* create(key, value): stores value unless the key has an entry
Create(store, value) == IF Exists(store) THEN store ELSE Stored(value)

\* remove(key): the store without the entry
Remove(store) == EmptyObj

\* ------------------------------------------------------------------ state

VARIABLES
    db,             \* the shift-db store: key -> value, no entry when absent
    version,        \* the store's version of the value at contentKey
    pc,             \* per client: where its call is suspended
    call,           \* per client: the exposed function called and its arguments
    potentialError, \* per client: the variable captured by the mutator
    candidate,      \* per client: the value the mutator returned to update()
    readVersion,    \* per client: the version update() read the value at
    result,         \* per client: what the call resolved or rejected with
    seen,           \* per client: the store as the call's last read found it
    wrote,          \* per client: whether the call has written to the store
    startDb,        \* per client: the store when the call was issued
    seqNo,          \* per client: the position of its call among all calls
    overlapped,     \* per client: the clients whose call ran during its call
    lastStored,     \* per key: the record the last successful update submitted
    runs,           \* per client: how often update() has run the call's mutator
    calls,          \* number of calls issued so far
    someRoute,      \* a route string handed to cleanRoute
    cleaned         \* the results of cleanRoute applied to it, again and again

vars == <<db, version, pc, call, potentialError, candidate, readVersion,
          result, seen, wrote, startDb, seqNo, overlapped, lastStored, runs,
          calls, someRoute, cleaned>>

\* The state of the store and of the clients' calls.
callVars == <<db, version, pc, call, potentialError, candidate, readVersion,
              result, seen, wrote, startDb, seqNo, overlapped, lastStored,
              runs, calls>>

\* The state of a direct use of cleanRoute.
routeVars == <<someRoute, cleaned>>

NoCall == [op |-> "none"]

\* The stores a behaviour starts from: no entry at contentKey (nothing was
\* ever read or saved), or the collection an earlier run left behind after
\* saving one document.
InitialStores ==
    { EmptyObj,
      Stored(Put(EmptyObj, cleanRoute(<<"A", " ", "b">>),
                 parseMDLocal(Content(<<"A", " ", "b">>, "x")))) }

\* No call has been issued.
InitCalls ==
    /\ db \in InitialStores
    /\ version = 0
    /\ pc = [c \in Clients |-> "idle"]
    /\ call = [c \in Clients |-> NoCall]
    /\ potentialError = [c \in Clients |-> Undefined]
    /\ candidate = [c \in Clients |-> EmptyObj]
    /\ readVersion = [c \in Clients |-> 0]
    /\ result = [c \in Clients |-> Undefined]
    /\ seen = [c \in Clients |-> EmptyObj]
    /\ wrote = [c \in Clients |-> FALSE]
    /\ startDb = [c \in Clients |-> EmptyObj]
    /\ seqNo = [c \in Clients |-> 0]
    /\ overlapped = [c \in Clients |-> {}]
    /\ lastStored = Spread(db)
    /\ runs = [c \in Clients |-> 0]
    /\ calls = 0

Init ==
    /\ InitCalls
    /\ someRoute = <<>>
    /\ cleaned = <<>>

\* ------------------------------------------------------------------ updateContent

\* A mutant of PrevCheck: the comparison with the stored raw is lost.
PrevCheckAlwaysPasses(copied, clean, clientPrevContent) == "pass"

\* A mutant of PrevCheck: null is compared like any other value.
PrevCheckComparesNull(copied, clean, clientPrevContent) ==
    IF clean \notin DOMAIN copied THEN "TypeError"
    ELSE IF clientPrevContent # copied[clean].raw THEN "mismatch"
    ELSE "pass"

\* if (clientPrevContent !== null && clientPrevContent !== copied[clean].raw):
\* the right operand is evaluated only for a non-null clientPrevContent, and
\* reading .raw of the undefined copied[clean] throws a TypeError
PrevCheck(copied, clean, clientPrevContent) ==
    IF clientPrevContent = Null THEN "pass"
    ELSE IF clean \notin DOMAIN copied THEN "TypeError"
    ELSE IF clientPrevContent # copied[clean].raw THEN "mismatch"
    ELSE "pass"

\* A mutant of StoreKey: the record is stored under the route as written.
StoreKeyAsWritten(route) == route

\* const clean = cleanRoute(route)
StoreKey(route) == cleanRoute(route)

\* A mutant of Assign: the rendered HTML of the record already stored at
\* the key is kept, only the other fields are taken from parsed.
AssignKeepsRendered(copied, clean, parsed) ==
    Put(copied, clean,
        IF clean \in DOMAIN copied
        THEN [parsed EXCEPT !.parsed = copied[clean].parsed]
        ELSE parsed)

\* A mutant of Assign: the assignment copied[clean] = parsed is lost.
AssignNothing(copied, clean, parsed) == copied

\* copied[clean] = parsed
Assign(copied, clean, parsed) == Put(copied, clean, parsed)

\* A mutant of Mutator: the comparison with clientPrevContent comes before
\* the route check, so cleanRoute(undefined) throws a TypeError.
MutatorComparesFirst(store, parsed, clientPrevContent, captured) ==
    LET copied == Spread(store) IN
    IF RouteUndefined(parsed)
    THEN [threw |-> TRUE, next |-> copied,
          potentialError |-> IF clientPrevContent # Null THEN captured
                             ELSE ErrorResult("CONTENT_MISSING_FIELD")]
    ELSE LET clean == StoreKey(parsed.attributes.route)
             check == PrevCheck(copied, clean, clientPrevContent) IN
         IF check = "TypeError"
         THEN [threw |-> TRUE, next |-> copied, potentialError |-> captured]
         ELSE IF check = "mismatch"
         THEN [threw |-> TRUE, next |-> copied,
               potentialError |-> ErrorResult("CONTENT_HAS_CHANGED")]
         ELSE [threw |-> FALSE, next |-> Assign(copied, clean, parsed),
               potentialError |-> captured]

\* A mutant of Mutator: prevContent is used as it is, without the copy
\* { ...prevContent }, so with no entry stored the run works on undefined
\* and throws a TypeError.
MutatorAssignsToPrev(store, parsed, clientPrevContent, captured) ==
    IF RouteUndefined(parsed)
    THEN [threw |-> TRUE, next |-> EmptyObj,
          potentialError |-> ErrorResult("CONTENT_MISSING_FIELD")]
    ELSE IF ~Exists(store)
    THEN [threw |-> TRUE, next |-> EmptyObj, potentialError |-> captured]
    ELSE LET copied == store[contentKey]
             clean == StoreKey(parsed.attributes.route)
             check == PrevCheck(copied, clean, clientPrevContent) IN
         IF check = "TypeError"
         THEN [threw |-> TRUE, next |-> copied, potentialError |-> captured]
         ELSE IF check = "mismatch"
         THEN [threw |-> TRUE, next |-> copied,
               potentialError |-> ErrorResult("CONTENT_HAS_CHANGED")]
         ELSE [threw |-> FALSE, next |-> Assign(copied, clean, parsed),
               potentialError |-> captured]

\* The mutator passed to update(): (prevContent) => { ... }.  threw says
\* whether it threw, next is the object it returned, potentialError the
\* captured variable after the run.
Mutator(store, parsed, clientPrevContent, captured) ==
    LET copied == Spread(store) IN
    IF RouteUndefined(parsed)
    THEN [threw |-> TRUE, next |-> copied,
          potentialError |-> ErrorResult("CONTENT_MISSING_FIELD")]
    ELSE LET clean == StoreKey(parsed.attributes.route)
             check == PrevCheck(copied, clean, clientPrevContent) IN
         IF check = "TypeError"
         THEN [threw |-> TRUE, next |-> copied, potentialError |-> captured]
         ELSE IF check = "mismatch"
         THEN [threw |-> TRUE, next |-> copied,
               potentialError |-> ErrorResult("CONTENT_HAS_CHANGED")]
         ELSE [threw |-> FALSE, next |-> Assign(copied, clean, parsed),
               potentialError |-> captured]

\* A mutant of Caught: the catch block is empty, so updateContent resolves
\* to undefined after a rejected update() as well.
CaughtReturnsUndefined(captured) == Ok

\* return potentialError || { type: 'error', code: 'UNKNOWN_ERROR', ... }
Caught(captured) ==
    IF captured # Undefined THEN captured ELSE ErrorResult("UNKNOWN_ERROR")

\* update() commits only when the value was not written since it was read
VersionUnchanged(readAt, now) == readAt = now

\* A call is issued: its arguments are bound and the ghost record of the
\* call is reset.
Issue(c, args) ==
    /\ pc[c] = "idle"
    /\ calls < MaxCalls
    /\ call' = [call EXCEPT ![c] = args]
    /\ calls' = calls + 1
    /\ seqNo' = [seqNo EXCEPT ![c] = calls + 1]
    /\ overlapped' = [d \in Clients |->
                        IF d = c THEN {e \in Clients \ {c} : pc[e] # "idle"}
                        ELSE IF pc[d] # "idle" THEN overlapped[d] \cup {c}
                        ELSE overlapped[d] \ {c}]
    /\ startDb' = [startDb EXCEPT ![c] = db]
    /\ seen' = [seen EXCEPT ![c] = EmptyObj]
    /\ wrote' = [wrote EXCEPT ![c] = FALSE]
    /\ potentialError' = [potentialError EXCEPT ![c] = Undefined]
    /\ candidate' = [candidate EXCEPT ![c] = EmptyObj]
    /\ readVersion' = [readVersion EXCEPT ![c] = 0]
    /\ runs' = [runs EXCEPT ![c] = 0]
    /\ UNCHANGED routeVars

\* The call settles with value r; the client keeps the result until its
\* next call.
Settle(c, r) ==
    /\ pc' = [pc EXCEPT ![c] = "idle"]
    /\ result' = [result EXCEPT ![c] = r]

\* updateContent(jwt, content, clientPrevContent) up to the update() call:
\* validateJWT rejects, or parseMDLocal throws, or the call reaches update()
UpdateContentCall(c) ==
    \E <<jwt, content, clientPrevContent>> \in UpdateContentArgs :
        /\ Issue(c, [op |-> "updateContent", jwt |-> jwt, content |-> content,
                     clientPrevContent |-> clientPrevContent])
        /\ IF ~validateJWT(jwt)
           THEN Settle(c, Thrown("INVALID_JWT"))
           ELSE IF FmThrows(content)
           THEN Settle(c, Thrown("YAML_EXCEPTION"))
           ELSE /\ pc' = [pc EXCEPT ![c] = "update"]
                /\ result' = [result EXCEPT ![c] = Undefined]
        /\ UNCHANGED <<db, version, lastStored>>

\* update() reads the value at contentKey and runs the mutator on it; a
\* throwing mutator rejects update() and the catch block returns the error
UpdateRunMutator(c) ==
    /\ pc[c] = "update"
    /\ LET m == Mutator(db, parseMDLocal(call[c].content),
                        call[c].clientPrevContent, potentialError[c]) IN
       /\ potentialError' = [potentialError EXCEPT ![c] = m.potentialError]
       /\ seen' = [seen EXCEPT ![c] = db]
       /\ readVersion' = [readVersion EXCEPT ![c] = version]
       /\ runs' = [runs EXCEPT ![c] = runs[c] + 1]
       /\ IF m.threw
          THEN /\ Settle(c, Caught(m.potentialError))
               /\ UNCHANGED candidate
          ELSE /\ candidate' = [candidate EXCEPT ![c] = m.next]
               /\ pc' = [pc EXCEPT ![c] = "commit"]
               /\ UNCHANGED result
    /\ UNCHANGED <<db, version, call, wrote, startDb, seqNo, overlapped,
                   lastStored, calls, routeVars>>

\* update() writes the mutator's value if the version is the one it read
\* (updateContent then returns undefined), and otherwise starts over
UpdateCommit(c) ==
    /\ pc[c] = "commit"
    /\ IF VersionUnchanged(readVersion[c], version)
       THEN /\ db' = Stored(candidate[c])
            /\ version' = version + 1
            /\ lastStored' =
                   LET submitted == parseMDLocal(call[c].content)
                   IN  Put(lastStored, cleanRoute(submitted.attributes.route),
                           submitted)
            /\ wrote' = [wrote EXCEPT ![c] = TRUE]
            /\ Settle(c, Ok)
       ELSE /\ pc' = [pc EXCEPT ![c] = "update"]
            /\ UNCHANGED <<db, version, wrote, result, lastStored>>
    /\ UNCHANGED <<call, potentialError, candidate, readVersion, seen,
                   startDb, seqNo, overlapped, runs, calls, routeVars>>

\* ------------------------------------------------------------------ parseMD

\* export async function parseMD(jwt, markdownContent)
ParseMDCall(c) ==
    \E <<jwt, content>> \in ParseMDArgs :
        /\ Issue(c, [op |-> "parseMD", jwt |-> jwt, content |-> content])
        /\ IF ~validateJWT(jwt)
           THEN Settle(c, Thrown("INVALID_JWT"))
           ELSE IF FmThrows(content)
           THEN Settle(c, Thrown("YAML_EXCEPTION"))
           ELSE Settle(c, Value(parseMDLocal(content)))
        /\ UNCHANGED <<db, version, lastStored>>

\* ------------------------------------------------------------------ read path

\* A mutant of RouteMatches: the routes are compared as written.
RouteMatchesAsWritten(attributes, route) == attributes.route = route

\* cleanRoute(attributes.route) === cleanRoute(route)
RouteMatches(attributes, route) ==
    cleanRoute(attributes.route) = cleanRoute(route)

\* A mutant of NotFound: the throw after the loop is missing and the
\* function returns undefined.
NotFoundReturnsUndefined(route) == Value(Undefined)

\* throw new Error(`No content found for route: "${route}"`)
NotFound(route) == Thrown("NO_CONTENT_FOUND")

\* The keys i of the scan loop at which the comparison holds; the loop
\* returns at the first of them in Object.keys order.
MatchingKeys(loadedContent, route) ==
    { k \in DOMAIN loadedContent : RouteMatches(loadedContent[k].attributes, route) }

\* The orders Object.keys(loaded) can list the keys in.
KeyOrders(loaded) ==
    { o \in [1..Cardinality(DOMAIN loaded) -> DOMAIN loaded] :
        \A i, j \in DOMAIN o : i # j => o[i] # o[j] }

\* What the caller of getContent() does with the collection it returns:
\* the scan of getContentByRoute / loadContentByRoute, the map of
\* getContentMeta.
Finish(c, loaded) ==
    CASE call[c].op = "getContentByRoute" ->
           IF MatchingKeys(loaded, call[c].route) = {}
           THEN Settle(c, NotFound(call[c].route))
           ELSE \E k \in MatchingKeys(loaded, call[c].route) :
                    Settle(c, Value(loaded[k]))
      [] call[c].op = "loadContentByRoute" ->
           IF MatchingKeys(loaded, call[c].route) = {}
           THEN Settle(c, NotFound(call[c].route))
           ELSE \E k \in MatchingKeys(loaded, call[c].route) :
                    Settle(c, Value(loaded[k].parsed))
      [] call[c].op = "getContentMeta" ->
           \E o \in KeyOrders(loaded) :
               Settle(c, Value([i \in DOMAIN o |-> loaded[o[i]].attributes]))

\* export async function getContentByRoute(jwt, route), up to getContent()
GetContentByRouteCall(c) ==
    \E <<jwt, route>> \in GetContentByRouteArgs :
        /\ Issue(c, [op |-> "getContentByRoute", jwt |-> jwt, route |-> route])
        /\ IF ~validateJWT(jwt)
           THEN Settle(c, Thrown("INVALID_JWT"))
           ELSE /\ pc' = [pc EXCEPT ![c] = "get"]
                /\ result' = [result EXCEPT ![c] = Undefined]
        /\ UNCHANGED <<db, version, lastStored>>

\* export async function loadContentByRoute(route), up to getContent()
LoadContentByRouteCall(c) ==
    \E route \in Routes :
        /\ Issue(c, [op |-> "loadContentByRoute", route |-> route])
        /\ pc' = [pc EXCEPT ![c] = "get"]
        /\ result' = [result EXCEPT ![c] = Undefined]
        /\ UNCHANGED <<db, version, lastStored>>

\* export async function getContentMeta(), up to getContent()
GetContentMetaCall(c) ==
    /\ Issue(c, [op |-> "getContentMeta"])
    /\ pc' = [pc EXCEPT ![c] = "get"]
    /\ result' = [result EXCEPT ![c] = Undefined]
    /\ UNCHANGED <<db, version, lastStored>>

\* getContent: const storedContent = await get(contentKey); a stored
\* collection is returned to the caller, undefined leads to remove/create
GetContentGet(c) ==
    /\ pc[c] = "get"
    /\ seen' = [seen EXCEPT ![c] = db]
    /\ IF Exists(db)
       THEN Finish(c, db[contentKey])
       ELSE /\ pc' = [pc EXCEPT ![c] = "remove"]
            /\ UNCHANGED result
    /\ UNCHANGED <<db, version, call, potentialError, candidate, readVersion,
                   wrote, startDb, seqNo, overlapped, lastStored, runs, calls,
                   routeVars>>

\* getContent: await remove(contentKey) deletes whatever is stored by now
GetContentRemove(c) ==
    /\ pc[c] = "remove"
    /\ db' = Remove(db)
    /\ version' = IF db' # db THEN version + 1 ELSE version
    /\ wrote' = [wrote EXCEPT ![c] = wrote[c] \/ db' # db]
    /\ UNCHANGED lastStored
    /\ pc' = [pc EXCEPT ![c] = "create"]
    /\ UNCHANGED <<call, potentialError, candidate, readVersion, result, seen,
                   startDb, seqNo, overlapped, runs, calls, routeVars>>

\* getContent: await create(contentKey, {}) stores {} unless there is an
\* entry by now; return {}
GetContentCreate(c) ==
    /\ pc[c] = "create"
    /\ db' = Create(db, EmptyObj)
    /\ version' = IF db' # db THEN version + 1 ELSE version
    /\ wrote' = [wrote EXCEPT ![c] = wrote[c] \/ db' # db]
    /\ UNCHANGED lastStored
    /\ Finish(c, EmptyObj)
    /\ UNCHANGED <<call, potentialError, candidate, readVersion, seen,
                   startDb, seqNo, overlapped, runs, calls, routeVars>>

\* ------------------------------------------------------------------ specifications

Step(c) ==
    \/ ParseMDCall(c)
    \/ UpdateContentCall(c)
    \/ UpdateRunMutator(c)
    \/ UpdateCommit(c)
    \/ GetContentByRouteCall(c)
    \/ LoadContentByRouteCall(c)
    \/ GetContentMetaCall(c)
    \/ GetContentGet(c)
    \/ GetContentRemove(c)
    \/ GetContentCreate(c)

\* Calls of different clients interleave at every await.
Next == \E c \in Clients : Step(c)

Spec == Init /\ [][Next]_vars

\* No call of another client is in flight.
Alone(c) == \A d \in Clients \ {c} : pc[d] = "idle"

\* One call at a time: a client takes a step only while no other client's
\* call is in flight.
SeqNext ==
    \E c \in Clients :
        \/ Alone(c) /\ ParseMDCall(c)
        \/ Alone(c) /\ UpdateContentCall(c)
        \/ Alone(c) /\ UpdateRunMutator(c)
        \/ Alone(c) /\ UpdateCommit(c)
        \/ Alone(c) /\ GetContentByRouteCall(c)
        \/ Alone(c) /\ LoadContentByRouteCall(c)
        \/ Alone(c) /\ GetContentMetaCall(c)
        \/ Alone(c) /\ GetContentGet(c)
        \/ Alone(c) /\ GetContentRemove(c)
        \/ Alone(c) /\ GetContentCreate(c)

SeqSpec == Init /\ [][SeqNext]_vars

\* ------------------------------------------------------------------ cleanRoute on its own

\* Characters of the route strings handed to cleanRoute: upper and lower
\* case letters, the two whitespace characters and the hyphen.
RouteChars == {"A", "a", "b", " ", "\t", "-"}

\* Every string of at most MaxLen of these characters, the empty one included.
RouteStrings == UNION { [1..n -> RouteChars] : n \in 0..MaxLen }

RouteInit ==
    /\ InitCalls
    /\ someRoute \in RouteStrings
    /\ cleaned = <<>>

\* cleanRoute(someRoute), then cleanRoute of that result, and once more.
CleanRouteStep ==
    /\ Len(cleaned) < 3
    /\ cleaned' = Append(cleaned,
                         cleanRoute(IF cleaned = <<>> THEN someRoute
                                    ELSE cleaned[Len(cleaned)]))
    /\ UNCHANGED <<callVars, someRoute>>

RouteNext == CleanRouteStep

RouteSpec == RouteInit /\ [][RouteNext]_vars

\* ------------------------------------------------------------------ properties

\* Client c holds the result of a call.
Finished(c) == pc[c] = "idle" /\ call[c] # NoCall

\* The call of c is an updateContent that got past validateJWT and
\* parseMDLocal, so its mutator ran.
ReachedUpdate(c) ==
    /\ call[c].op = "updateContent"
    /\ validateJWT(call[c].jwt)
    /\ ~FmThrows(call[c].content)

\* The frontmatter of the submitted content has a route key.
DeclaresRoute(c) == "route" \in DOMAIN call[c].content.attrs

\* The normalized key of the route the submitted content declares.
Key(c) == cleanRoute(call[c].content.attrs.route)

\* The expectedPriorRaw argument of the call.
ExpectedPriorRaw(c) == call[c].clientPrevContent

\* The collection the last mutator run of c's call was given.
SeenCollection(c) == Spread(seen[c])

\* The update of c found a record at its key whose raw is not the
\* non-null expectedPriorRaw.
StalePrior(c) ==
    /\ ReachedUpdate(c)
    /\ DeclaresRoute(c)
    /\ ExpectedPriorRaw(c) # Null
    /\ Key(c) \in DOMAIN SeenCollection(c)
    /\ SeenCollection(c)[Key(c)].raw # ExpectedPriorRaw(c)

\* C1: an update whose non-null expectedPriorRaw differs from the raw of the
\* record stored at the normalized key of its route returns the error
\* CONTENT_HAS_CHANGED and has written nothing to the store.
C1_StalePriorRejected ==
    \A c \in Clients :
        (Finished(c) /\ StalePrior(c)) =>
            /\ result[c] = ErrorResult("CONTENT_HAS_CHANGED")
            /\ ~wrote[c]

\* C1 witness: a finished update that met a record with another raw and
\* was rejected while that record is still the stored one.
C1_Witness ==
    \E c \in Clients :
        /\ Finished(c) /\ StalePrior(c)
        /\ result[c] = ErrorResult("CONTENT_HAS_CHANGED")
        /\ db = seen[c]

\* The update of c carried a non-null expectedPriorRaw and found no record
\* at the normalized key of its route.
PriorButNoRecord(c) ==
    /\ ReachedUpdate(c)
    /\ DeclaresRoute(c)
    /\ ExpectedPriorRaw(c) # Null
    /\ Key(c) \notin DOMAIN SeenCollection(c)

\* C2: an update with a non-null expectedPriorRaw that finds no record at
\* the normalized key of its route returns the error CONTENT_HAS_CHANGED
\* and has written nothing to the store.
C2_MissingRecordIsChanged ==
    \A c \in Clients :
        (Finished(c) /\ PriorButNoRecord(c)) =>
            /\ result[c] = ErrorResult("CONTENT_HAS_CHANGED")
            /\ ~wrote[c]

\* What the code does in the case of C2: the error is UNKNOWN_ERROR, and
\* nothing is written.
C2_MissingRecordIsUnknownError ==
    \A c \in Clients :
        (Finished(c) /\ PriorButNoRecord(c)) =>
            /\ result[c] = ErrorResult("UNKNOWN_ERROR")
            /\ ~wrote[c]

\* The calls of c and d are updates racing on one key: concurrent, the same
\* non-null expectedPriorRaw, which is the raw stored at the key when each
\* call was issued, and each submitting a raw other than that.
Racing(c, d) ==
    /\ c # d
    /\ d \in overlapped[c]
    /\ ReachedUpdate(c) /\ ReachedUpdate(d)
    /\ DeclaresRoute(c) /\ DeclaresRoute(d)
    /\ Key(c) = Key(d)
    /\ ExpectedPriorRaw(c) # Null
    /\ ExpectedPriorRaw(c) = ExpectedPriorRaw(d)
    /\ \A e \in {c, d} :
          /\ Key(e) \in DOMAIN Spread(startDb[e])
          /\ Spread(startDb[e])[Key(e)].raw = ExpectedPriorRaw(e)
          /\ call[e].content # ExpectedPriorRaw(e)

\* C3: of two concurrent updates of one key that both expect the raw stored
\* when they start and both submit another raw, one succeeds and the other
\* returns CONTENT_HAS_CHANGED, and the record at the key is then the one
\* the successful call submitted.
C3_OneRacingUpdateWins ==
    \A c, d \in Clients :
        (Finished(c) /\ Finished(d) /\ Racing(c, d)) =>
            \E w \in {c, d} :
                /\ result[w] = Ok
                /\ \A l \in {c, d} \ {w} :
                      result[l] = ErrorResult("CONTENT_HAS_CHANGED")
                /\ Exists(db)
                /\ Key(w) \in DOMAIN db[contentKey]
                /\ db[contentKey][Key(w)] = parseMDLocal(call[w].content)

\* C3 witness: two racing updates have finished, and the one that lost
\* had run its mutator successfully once before the other committed.
C3_Witness ==
    \E c, d \in Clients :
        /\ Finished(c) /\ Finished(d) /\ Racing(c, d)
        /\ result[c] = Ok
        /\ result[d] = ErrorResult("CONTENT_HAS_CHANGED")
        /\ candidate[d] # EmptyObj

\* The call of d is an update with the content and the non-null
\* expectedPriorRaw of the update of c, issued right after it, and the
\* update of c found its expectedPriorRaw stored at the key.
RepeatedUpdate(c, d) ==
    /\ c # d
    /\ ReachedUpdate(c) /\ ReachedUpdate(d)
    /\ DeclaresRoute(c)
    /\ call[d].content = call[c].content
    /\ ExpectedPriorRaw(c) # Null
    /\ ExpectedPriorRaw(d) = ExpectedPriorRaw(c)
    /\ seqNo[d] = seqNo[c] + 1
    /\ Key(c) \in DOMAIN SeenCollection(c)
    /\ SeenCollection(c)[Key(c)].raw = ExpectedPriorRaw(c)

\* The first update succeeded and its record replaced the one at the key;
\* the repeated update was rejected and the collection is as the first left
\* it.
FirstWinsSecondRejected(c, d) ==
    /\ result[c] = Ok
    /\ Key(c) \in DOMAIN SeenCollection(d)
    /\ SeenCollection(d)[Key(c)] = parseMDLocal(call[c].content)
    /\ result[d] = ErrorResult("CONTENT_HAS_CHANGED")
    /\ ~wrote[d]
    /\ db = seen[d]

\* C4 as stated: run one after the other, an update whose expectedPriorRaw
\* is the stored raw succeeds and replaces the record, and the same update
\* issued again fails with CONTENT_HAS_CHANGED and changes nothing.
C4_RepeatedUpdateRejected ==
    \A c, d \in Clients :
        (Finished(c) /\ Finished(d) /\ RepeatedUpdate(c, d)) =>
            FirstWinsSecondRejected(c, d)

\* C4 amended: the same, for an update whose content is not the raw it
\* expects to replace.
C4_RepeatedChangingUpdateRejected ==
    \A c, d \in Clients :
        (/\ Finished(c) /\ Finished(d) /\ RepeatedUpdate(c, d)
         /\ call[c].content # ExpectedPriorRaw(c)) =>
            FirstWinsSecondRejected(c, d)

\* C4 witness: an update that changed the stored raw, then the same update
\* again, rejected.
C4_Witness ==
    \E c, d \in Clients :
        /\ Finished(c) /\ Finished(d) /\ RepeatedUpdate(c, d)
        /\ call[c].content # ExpectedPriorRaw(c)
        /\ FirstWinsSecondRejected(c, d)

\* The update of c passes null as expectedPriorRaw and its content declares
\* a route.
Overriding(c) ==
    /\ ReachedUpdate(c)
    /\ DeclaresRoute(c)
    /\ ExpectedPriorRaw(c) = Null

\* C5: an update with expectedPriorRaw = null whose content parses and
\* declares a route ends with success, whatever is stored, and as it ends
\* the record at the normalized key is the newly parsed record.
C5_NullPriorAlwaysSucceeds ==
    [][\A c \in Clients :
          (pc[c] # "idle" /\ pc'[c] = "idle" /\ Overriding(c)) =>
              /\ result'[c] = Ok
              /\ Exists(db')
              /\ Key(c) \in DOMAIN db'[contentKey]
              /\ db'[contentKey][Key(c)] = parseMDLocal(call[c].content)]_vars

\* C5 witness: an update with a null expectedPriorRaw has replaced a record
\* with another raw, and one has succeeded with no record at its key.
C5_Witness ==
    /\ \E c \in Clients :
          /\ Finished(c) /\ Overriding(c) /\ result[c] = Ok
          /\ Key(c) \in DOMAIN SeenCollection(c)
          /\ SeenCollection(c)[Key(c)].raw # call[c].content
    /\ \E c \in Clients :
          /\ Finished(c) /\ Overriding(c) /\ result[c] = Ok
          /\ Key(c) \notin DOMAIN SeenCollection(c)

\* C6: an update whose content has no route key in its frontmatter returns
\* the error CONTENT_MISSING_FIELD for every expectedPriorRaw, null or not,
\* and has written nothing to the store.
C6_MissingRouteRejected ==
    \A c \in Clients :
        (Finished(c) /\ ReachedUpdate(c) /\ ~DeclaresRoute(c)) =>
            /\ result[c] = ErrorResult("CONTENT_MISSING_FIELD")
            /\ ~wrote[c]

\* C6 witness: content without a route was rejected although the call
\* carried an expectedPriorRaw that matches nothing stored.
C6_Witness ==
    \E c \in Clients :
        /\ Finished(c) /\ ReachedUpdate(c) /\ ~DeclaresRoute(c)
        /\ ExpectedPriorRaw(c) # Null
        /\ Exists(seen[c])
        /\ result[c] = ErrorResult("CONTENT_MISSING_FIELD")

\* C7: with a valid credential updateContent never throws; every failure,
\* a failure of the Markdown Processor included, is a result value of type
\* 'error', and nothing is written.
C7_UpdateNeverThrows ==
    \A c \in Clients :
        (/\ Finished(c)
         /\ call[c].op = "updateContent"
         /\ validateJWT(call[c].jwt)) =>
            /\ result[c].type # "thrown"
            /\ result[c] # Ok => (result[c].type = "error" /\ ~wrote[c])

\* The call of d is a getContentByRoute with an accepted token.
Lookup(d) ==
    /\ call[d].op = "getContentByRoute"
    /\ validateJWT(call[d].jwt)

C9_KeysAreNormalizedRoutes ==
    Exists(db) =>
        \A k \in DOMAIN db[contentKey] :
            LET record == db[contentKey][k] IN
            /\ "route" \in DOMAIN record.attributes
            /\ cleanRoute(k) = k
            /\ k = cleanRoute(record.attributes.route)
            /\ \A j \in DOMAIN db[contentKey] \ {k} :
                  cleanRoute(db[contentKey][j].attributes.route)
                      # cleanRoute(record.attributes.route)

\* C9 witness: an update has stored a record whose route is not written in
\* normalized form, beside a record under another key.
C9_Witness ==
    \E c \in Clients :
        /\ Finished(c) /\ ReachedUpdate(c) /\ DeclaresRoute(c)
        /\ result[c] = Ok
        /\ call[c].content.attrs.route # Key(c)
        /\ Exists(db)
        /\ Key(c) \in DOMAIN db[contentKey]
        /\ db[contentKey][Key(c)] = parseMDLocal(call[c].content)
        /\ Cardinality(DOMAIN db[contentKey]) = 2

\* The call of c is on the read path (a route lookup or the metadata
\* listing, which call getContent) and was issued with no entry at
\* contentKey.
FirstRead(c) ==
    /\ call[c].op \in {"getContentByRoute", "loadContentByRoute", "getContentMeta"}
    /\ call[c].op = "getContentByRoute" => validateJWT(call[c].jwt)
    /\ startDb[c] = EmptyObj

\* The call of d is the metadata listing issued right after the call of c.
ListingAfter(c, d) ==
    /\ c # d
    /\ call[d].op = "getContentMeta"
    /\ seqNo[d] = seqNo[c] + 1

\* C10: run one call at a time from a store with no entry at contentKey, a
\* read-path call writes the store once, creating the empty collection, and
\* the metadata listing that follows returns the empty list and writes
\* nothing.
C10_LazyInitCreatesOneEmptyCollection ==
    /\ [][\A c \in Clients :
            (pc[c] # "idle" /\ FirstRead(c)) =>
                /\ db' = db \/ (db = EmptyObj /\ db' = Stored(EmptyObj))
                /\ pc'[c] = "idle" => db' = Stored(EmptyObj)]_vars
    /\ [](\A c, d \in Clients :
            (Finished(c) /\ FirstRead(c) /\ Finished(d) /\ ListingAfter(c, d)) =>
                /\ result[d] = Value(<<>>)
                /\ ~wrote[d]
                /\ db = Stored(EmptyObj))

\* C10 witness: a read-path call has created the empty collection and the
\* listing after it has returned the empty list.
C10_Witness ==
    \E c, d \in Clients :
        /\ Finished(c) /\ FirstRead(c) /\ wrote[c]
        /\ Finished(d) /\ ListingAfter(c, d)
        /\ result[d] = Value(<<>>)
        /\ db = Stored(EmptyObj)

\* The calls of c and d are concurrent read-path calls, both issued with
\* no entry at contentKey.
ConcurrentFirstReads(c, d) ==
    /\ c # d
    /\ d \in overlapped[c]
    /\ FirstRead(c) /\ FirstRead(d)

\* What a read-path call returns or throws when getContent gave it {}.
ResultOnEmpty(c) ==
    IF call[c].op = "getContentMeta" THEN Value(<<>>) ELSE Thrown("NO_CONTENT_FOUND")

\* C11: when concurrent loads start with no entry at contentKey, the empty
\* collection is created exactly once: only one of the loads writes to the
\* store (none removes or creates again what the other created), the store
\* then holds the empty collection, and each load got the empty collection.
C11_ConcurrentLazyInitCreatesOnce ==
    \A c, d \in Clients :
        (Finished(c) /\ Finished(d) /\ ConcurrentFirstReads(c, d)) =>
            /\ wrote[c] # wrote[d]
            /\ db = Stored(EmptyObj)
            /\ result[c] = ResultOnEmpty(c)
            /\ result[d] = ResultOnEmpty(d)

\* C12: once the collection exists it changes only by the commit of a
\* successful updateContent; no step of a read-path call removes or
\* overwrites a record that a successful updateContent has committed, so
\* every such record is still the stored one.
C12_ReadPathKeepsCommittedRecords ==
    \A k \in DOMAIN lastStored :
        /\ Exists(db)
        /\ k \in DOMAIN db[contentKey]
        /\ db[contentKey][k] = lastStored[k]

\* The call of c is one of the three authenticated operations and carries
\* a token the authenticator rejects.
RejectedCall(c) ==
    /\ call[c] # NoCall
    /\ call[c].op \in {"parseMD", "updateContent", "getContentByRoute"}
    /\ call[c].jwt = "invalid"

\* C13: parseMD, updateContent and getContentByRoute with a rejected token
\* abort before any store operation: the call never reaches get, remove,
\* create or update (it runs no mutator and writes nothing), the step that
\* rejects it leaves the store as it was, and the rejection is thrown, not
\* returned as an error code.
C13_RejectedTokenTouchesNoStore ==
    /\ [](\A c \in Clients :
            RejectedCall(c) =>
                /\ pc[c] = "idle"
                /\ result[c].type = "thrown"
                /\ ~wrote[c]
                /\ runs[c] = 0
                /\ seen[c] = EmptyObj)
    /\ [][\A c \in Clients :
            (seqNo'[c] # seqNo[c] /\ call'[c].op # "loadContentByRoute"
             /\ call'[c].op # "getContentMeta" /\ call'[c].jwt = "invalid") =>
                (db' = db /\ version' = version)]_vars

\* A rejected updateContent and a rejected getContentByRoute have both
\* finished against a store that holds a record.
C13_Witness ==
    \E c, d \in Clients :
        /\ RejectedCall(c) /\ call[c].op = "updateContent"
        /\ RejectedCall(d) /\ call[d].op = "getContentByRoute"
        /\ Exists(db) /\ db[contentKey] # EmptyObj

\* The positions of s that start a maximal run of whitespace or hold a
\* character that is not whitespace, in increasing order.
KeptPositions(s) ==
    LET kept == { i \in 1..Len(s) :
                    s[i] \in Whitespace => (i = 1 \/ s[i - 1] \notin Whitespace) }
    IN  CHOOSE f \in [1..Cardinality(kept) -> kept] :
            \A i, j \in 1..Cardinality(kept) : i < j => f[i] < f[j]

\* s with every maximal run of whitespace replaced by one hyphen and every
\* other character lower-cased.
Normalized(s) ==
    LET f == KeptPositions(s)
    IN  [i \in DOMAIN f |->
            IF s[f[i]] \in Whitespace THEN "-" ELSE LowerChar(s[f[i]])]

\* C14: cleanRoute is idempotent on every route string, the empty one and
\* the ones made only of whitespace included: applied to its own result it
\* returns that result; and its result is the string with every maximal
\* run of whitespace replaced by one hyphen, lower-cased.
C14_CleanRouteIdempotent ==
    /\ Len(cleaned) >= 1 => cleaned[1] = Normalized(someRoute)
    /\ \A i \in 2..Len(cleaned) : cleaned[i] = cleaned[1]

\* cleanRoute was applied, and applied again to its result, on a string
\* made only of whitespace, which it turned into one hyphen.
C14_Witness ==
    /\ Len(cleaned) >= 2
    /\ Len(someRoute) >= 2
    /\ \A i \in 1..Len(someRoute) : someRoute[i] \in Whitespace
    /\ cleaned[2] = <<"-">>

\* C15: every stored record is what parseMDLocal gives for the record's own
\* raw field, and that raw is a text a client submitted: attributes, body
\* and rendered HTML are derived from raw and from nothing else.
C15_StoredRecordIsParseOfItsRaw ==
    Exists(db) =>
        \A k \in DOMAIN db[contentKey] :
            /\ db[contentKey][k].raw \in RoutedContents
            /\ db[contentKey][k] = parseMDLocal(db[contentKey][k].raw)

\* A successful updateContent has replaced a stored record by one with
\* another body, and the collection it committed is the stored one.
C15_Witness ==
    \E c \in Clients :
        /\ Finished(c) /\ ReachedUpdate(c) /\ wrote[c]
        /\ Key(c) \in DOMAIN SeenCollection(c)
        /\ SeenCollection(c)[Key(c)].body # call[c].content.body
        /\ db = Stored(candidate[c])

\* The call of c is a route lookup: getContentByRoute with an accepted
\* token, or loadContentByRoute.
RouteLookup(c) ==
    /\ call[c] # NoCall
    /\ \/ Lookup(c)
       \/ call[c].op = "loadContentByRoute"

\* No record of the collection that getContent read for c declares a route
\* with the normalization of the route c looks up.
NoRecordForRoute(c) ==
    \A k \in DOMAIN SeenCollection(c) :
        cleanRoute(SeenCollection(c)[k].attributes.route) # cleanRoute(call[c].route)

\* C16: a getContentByRoute or loadContentByRoute for a route that matches
\* no stored record, after normalization of both, fails with the not-found
\* error and returns no record, and if there was a collection the lookup
\* has written nothing to the store.
C16_UnmatchedLookupThrowsNotFound ==
    \A c \in Clients :
        (Finished(c) /\ RouteLookup(c) /\ NoRecordForRoute(c)) =>
            /\ result[c] = Thrown("NO_CONTENT_FOUND")
            /\ Exists(seen[c]) => ~wrote[c]

\* A getContentByRoute and a loadContentByRoute have each read a
\* collection that holds a record, none for the route looked up, and
\* finished.
C16_Witness ==
    \E c, d \in Clients :
        /\ Finished(c) /\ Lookup(c)
        /\ Finished(d) /\ call[d].op = "loadContentByRoute"
        /\ \A e \in {c, d} :
              /\ Exists(seen[e]) /\ SeenCollection(e) # EmptyObj
              /\ NoRecordForRoute(e)

\* C17: the step in which an updateContent commits and succeeds changes
\* the collection at the normalized key of the submitted content and
\* nowhere else: the keys afterwards are the keys before and that key, the
\* record at that key is the newly parsed record with all its fields, and
\* the record at every other key is the one that was there.
C17_CommitReplacesOneKey ==
    [][\A c \in Clients :
        (pc[c] = "commit" /\ pc'[c] = "idle") =>
            LET before == IF Exists(db) THEN db[contentKey] ELSE EmptyObj
                after  == db'[contentKey]
                k      == cleanRoute(call[c].content.attrs.route)
            IN  /\ result'[c] = Ok
                /\ DOMAIN after = DOMAIN before \cup {k}
                /\ after[k] = parseMDLocal(call[c].content)
                /\ \A j \in DOMAIN before \ {k} : after[j] = before[j]]_vars

\* A successful updateContent has replaced the record at its key by a
\* different one in a collection that holds a record at another key too.
C17_Witness ==
    \E c \in Clients :
        /\ Finished(c) /\ ReachedUpdate(c) /\ wrote[c]
        /\ Key(c) \in DOMAIN SeenCollection(c)
        /\ SeenCollection(c)[Key(c)] # parseMDLocal(call[c].content)
        /\ DOMAIN SeenCollection(c) # {Key(c)}
        /\ db = Stored(candidate[c])

\* C18: the result of updateContent agrees with what it committed, however
\* often update() ran the mutator: a finished call returned undefined
\* exactly if it wrote its record and an error object exactly if it wrote
\* nothing; a mutator run that is about to commit has captured no error;
\* and the committing step writes the candidate that the last mutator run
\* computed from the collection stored at that moment.
C18_ResultAgreesWithCommit ==
    /\ [](\A c \in Clients :
            /\ (Finished(c) /\ ReachedUpdate(c)) =>
                   /\ result[c] = Ok <=> wrote[c]
                   /\ result[c].type = "error" <=> ~wrote[c]
            /\ pc[c] = "commit" => potentialError[c] = Undefined)
    /\ [][\A c \in Clients :
            (pc[c] = "commit" /\ pc'[c] = "idle") =>
                /\ seen[c] = db
                /\ db' = Stored(candidate[c])
                /\ result'[c] = Ok]_vars

\* An updateContent whose mutator ran twice, the store having changed under
\* its first run, has committed and returned undefined.
C18_Witness ==
    \E c \in Clients :
        /\ Finished(c) /\ ReachedUpdate(c)
        /\ runs[c] >= 2
        /\ wrote[c] /\ result[c] = Ok

\* The last mutator run of c, an update with null as expectedPriorRaw and
\* a declared route, found no entry at contentKey.
OverridingOnNoEntry(c) ==
    /\ Overriding(c)
    /\ pc[c] = "commit" \/ Finished(c)
    /\ ~Exists(seen[c])

\* C19: an updateContent with null as expectedPriorRaw and a declared
\* route does not fail when there is no entry at contentKey: the mutator
\* takes the absent value for the empty collection, its candidate holds
\* exactly one record, the newly parsed one under the normalized key, and
\* the call commits it and returns undefined.
C19_UpdateOnAbsentCollectionSucceeds ==
    \A c \in Clients :
        OverridingOnNoEntry(c) =>
            /\ candidate[c] = Put(EmptyObj, Key(c), parseMDLocal(call[c].content))
            /\ Finished(c) => (result[c] = Ok /\ wrote[c])

\* Such an update was issued with no entry at contentKey, has finished,
\* and the stored collection is the one record it committed.
C19_Witness ==
    \E c \in Clients :
        /\ OverridingOnNoEntry(c) /\ Finished(c)
        /\ startDb[c] = EmptyObj
        /\ result[c] = Ok
        /\ db = Stored(Put(EmptyObj, Key(c), parseMDLocal(call[c].content)))

====
